---- MODULE Spec2Model ----
(***************************************************************************)
(* Model of scripts/publish_to_hashnode.py: the batch driver main(), the   *)
(* per-file step process_markdown_file, the publication resolver           *)
(* get_publication_id and the publish mutation builder publish_post.       *)
(*                                                                         *)
(* Strings are sequences of tokens.  A token is a character (" ", ",",     *)
(* the two quote characters) or a piece of text that the code only ever    *)
(* handles as a whole ("https://", ".hashnode.dev", "myblog").             *)
(***************************************************************************)
EXTENDS Integers, Sequences, FiniteSets, TLC

VARIABLES
    pc,              \* position of the single thread of control
    changed_files,   \* changed_files.txt: NoFile or its lines
    directory,       \* names of the files that exist in the working directory
    file_list,       \* main: file_list
    idx,             \* main: position of the for loop in file_list
    results,         \* main: results
    report,          \* publish_results.txt: NoFile or its per-file lines
    exit_status,     \* process exit status, Running until the process ends
    text,            \* what reading and parsing the current file gave
    frontmatter,     \* process_markdown_file / publish_post: frontmatter
    content,         \* publish_post: content (the markdown body)
    domain,          \* publish_post / get_publication_id: domain
    publications,    \* get_publication_id: publications
    publication_id,  \* publish_post: publication_id
    input_data,      \* publish_post: input_data
    requests,        \* operations POSTed to the API for the current file, in order
    response,        \* the last HTTP response received
    log,             \* what the per-file step last printed for the current file
    publish_failed   \* some call of publish_post has returned a falsy value

vars == <<pc, changed_files, directory, file_list, idx, results, report,
          exit_status, text, frontmatter, content, domain, publications,
          publication_id, input_data, requests, response, log, publish_failed>>

(***************************************************************************)
(* Bounds of the model.                                                    *)
(***************************************************************************)
MaxFiles == 2       \* lines of changed_files.txt
MaxPubs == 2        \* publications returned by the identity lookup
MaxOptKeys == 2     \* optional frontmatter keys set together (SpecInput)

(***************************************************************************)
(* Python string methods on token sequences.                               *)
(***************************************************************************)
DQ == "\""
SQ == "'"
SP == " "

RECURSIVE LStrip(_, _)
LStrip(s, cs) == IF s # <<>> /\ Head(s) \in cs THEN LStrip(Tail(s), cs) ELSE s

RECURSIVE RStrip(_, _)
RStrip(s, cs) ==
    IF s # <<>> /\ s[Len(s)] \in cs THEN RStrip(SubSeq(s, 1, Len(s) - 1), cs) ELSE s

\* str.strip(chars)
StripChars(s, cs) == RStrip(LStrip(s, cs), cs)

\* str.strip()
Strip(s) == StripChars(s, {SP})

\* str.replace(tok, "")
Remove(s, tok) == SelectSeq(s, LAMBDA c : c # tok)

\* str.split(sep)[0]
RECURSIVE SplitHead(_, _)
SplitHead(s, sep) ==
    IF s = <<>> \/ Head(s) = sep THEN <<>> ELSE <<Head(s)>> \o SplitHead(Tail(s), sep)

\* str.split(sep)
RECURSIVE Split(_, _)
Split(s, sep) ==
    LET head == SplitHead(s, sep)
    IN  IF Len(head) = Len(s) THEN <<head>>
        ELSE <<head>> \o Split(SubSeq(s, Len(head) + 2, Len(s)), sep)

LowerTok(c) ==
    CASE c = "MyBlog" -> "myblog"
      [] c = ".Hashnode.Dev" -> ".hashnode.dev"
      [] OTHER -> c

\* str.lower()
Lower(s) == [i \in 1..Len(s) |-> LowerTok(s[i])]

\* str.endswith(tok)
EndsWith(s, tok) == s # <<>> /\ s[Len(s)] = tok

Take(s, n) == SubSeq(s, 1, IF Len(s) < n THEN Len(s) ELSE n)

(***************************************************************************)
(* YAML / JSON values.  s is what str(value) gives.                        *)
(***************************************************************************)
Str(s) == [t |-> "str", s |-> s, items |-> <<>>]
Num(s) == [t |-> "int", s |-> s, items |-> <<>>]
Bool(b) == [t |-> "bool", s |-> IF b THEN <<"True">> ELSE <<"False">>, items |-> <<>>]
List(xs) == [t |-> "list", s |-> <<"[", "]">>, items |-> xs]
Null == [t |-> "null", s |-> <<"None">>, items |-> <<>>]
Absent == [t |-> "absent", s |-> <<>>, items |-> <<>>]

\* Python truth value of a YAML value
Truthy(v) ==
    CASE v.t = "str" -> v.s # <<>>
      [] v.t = "int" -> v.s # <<"0">>
      [] v.t = "bool" -> v.s = <<"True">>
      [] v.t = "list" -> v.items # <<>>
      [] OTHER -> FALSE

FrontmatterKeys ==
    {"title", "slug", "domain", "tags", "subtitle", "cover", "cover_image",
     "canonical", "seoTitle", "seoDescription", "seriesSlug", "saveAsDraft",
     "hideFromHashnodeCommunity", "disableComments", "enableToc", "ignorePost"}

\* the mapping yaml.safe_load returns for a header holding the keys of rec
Mapping(rec) == [k \in FrontmatterKeys |-> IF k \in DOMAIN rec THEN rec[k] ELSE Absent]

\* "k" in frontmatter
Has(fm, k) == fm[k] # Absent

\* frontmatter.get(k, default)
Get(fm, k, default) == IF Has(fm, k) THEN fm[k] ELSE default

\* "k" in frontmatter and frontmatter["k"]
HasTruthy(fm, k) == Has(fm, k) /\ Truthy(fm[k])

(***************************************************************************)
(* publish_post: the input object of the publish mutation.                 *)
(***************************************************************************)
MaxTags == 5

InputFields ==
    {"publicationId", "title", "slug", "contentMarkdown", "tags", "subtitle",
     "coverImageURL", "publishStatus", "hideFromHashnodeCommunity",
     "originalArticleURL", "seoTitle", "seoDescription", "disableComments",
     "seriesSlug", "enableTableOfContents"}

\* frontmatter.get("title", "") is not a str: .strip raises AttributeError
TitleRaises(fm) == Get(fm, "title", Str(<<>>)).t # "str"

\* title = frontmatter.get("title", "").strip('"').strip("'")
Title(fm) == StripChars(StripChars(Get(fm, "title", Str(<<>>)).s, {DQ}), {SQ})

\* str(value).strip('"').strip("'")
Unquoted(v) == Str(StripChars(StripChars(v.s, {DQ}), {SQ}))

\* str(value).strip()
Trimmed(v) == Str(Strip(v.s))

\* tag_list, from a comma-separated string or a list, cut to five tags
TagList(tags) ==
    LET parts == Split(tags.s, ",")
        fromStr == SelectSeq([i \in 1..Len(parts) |-> Strip(parts[i])],
                             LAMBDA p : p # <<>>)
        kept == SelectSeq(tags.items, Truthy)
        fromList == [i \in 1..Len(kept) |-> Strip(kept[i].s)]
    IN  Take(CASE tags.t = "str" -> fromStr
               [] tags.t = "list" -> fromList
               [] OTHER -> <<>>,
             MaxTags)

\* [{"slug": tag, "name": tag} for tag in tag_list]
TagObjects(tag_list) ==
    List([i \in 1..Len(tag_list) |-> [slug |-> tag_list[i], name |-> tag_list[i]]])

\* the value input_data holds for one field, Absent when the field is not set
InputValue(fm, body, pub_id, f) ==
    CASE f = "publicationId" -> Str(<<pub_id>>)
      [] f = "title" -> Str(Title(fm))
      [] f = "slug" -> Get(fm, "slug", Str(<<>>))
      [] f = "contentMarkdown" -> Str(body)
      [] f = "tags" ->
            IF TagList(Get(fm, "tags", Str(<<>>))) # <<>>
            THEN TagObjects(TagList(Get(fm, "tags", Str(<<>>)))) ELSE Absent
      [] f = "subtitle" ->
            IF HasTruthy(fm, "subtitle") THEN Unquoted(fm["subtitle"]) ELSE Absent
      [] f = "coverImageURL" ->
            IF HasTruthy(fm, "cover") THEN Trimmed(fm["cover"])
            ELSE IF HasTruthy(fm, "cover_image") THEN Trimmed(fm["cover_image"])
            ELSE Absent
      [] f = "publishStatus" ->
            IF Truthy(Get(fm, "saveAsDraft", Bool(FALSE)))
            THEN Str(<<"DRAFT">>) ELSE Str(<<"PUBLISHED">>)
      [] f = "hideFromHashnodeCommunity" ->
            IF Truthy(Get(fm, "hideFromHashnodeCommunity", Bool(FALSE)))
            THEN Bool(TRUE) ELSE Absent
      [] f = "originalArticleURL" ->
            IF HasTruthy(fm, "canonical") THEN Trimmed(fm["canonical"]) ELSE Absent
      [] f = "seoTitle" ->
            IF HasTruthy(fm, "seoTitle") THEN Unquoted(fm["seoTitle"]) ELSE Absent
      [] f = "seoDescription" ->
            IF HasTruthy(fm, "seoDescription")
            THEN Unquoted(fm["seoDescription"]) ELSE Absent
      [] f = "disableComments" ->
            IF Truthy(Get(fm, "disableComments", Bool(FALSE)))
            THEN Bool(TRUE) ELSE Absent
      [] f = "seriesSlug" ->
            IF HasTruthy(fm, "seriesSlug") THEN Trimmed(fm["seriesSlug"]) ELSE Absent
      [] f = "enableTableOfContents" ->
            IF Truthy(Get(fm, "enableToc", Bool(FALSE))) THEN Bool(TRUE) ELSE Absent

InputData(fm, body, pub_id) == [f \in InputFields |-> InputValue(fm, body, pub_id, f)]

NoInput == [f \in InputFields |-> Absent]

(***************************************************************************)
(* parse_frontmatter and the skip rules of process_markdown_file.          *)
(* A file's text is modelled by what open/re.match/yaml.safe_load make of  *)
(* it: kind is "unreadable" (open raises), "plain" (no header), "bad_yaml" *)
(* (YAMLError), "null" (the header is empty), "scalar" (the header is a    *)
(* plain string) or "mapping".                                             *)
(***************************************************************************)
NoFrontmatter == [k \in FrontmatterKeys |-> Absent]

Text(kind, fm) == [kind |-> kind, fm |-> fm, body |-> <<"body">>]

\* parse_frontmatter(content)[0] is None
ParsesToNone(c) == c.kind \in {"plain", "bad_yaml", "null"}

\* not frontmatter: None or an empty mapping
FrontmatterFalsy(c) == ParsesToNone(c) \/ (c.kind = "mapping" /\ c.fm = NoFrontmatter)

\* domain = str(domain_value).strip() if domain_value else ""
DomainOf(fm) == IF Truthy(fm["domain"]) THEN Strip(fm["domain"].s) ELSE <<>>

ReservedNames == {"README.md", "SETUP.md"}

\* Path(file_path_str).name
Name(path) == path[Len(path)]

\* mutant: the ignorePost flag is not looked at
process_markdown_file_NoIgnore(path, c) ==
    CASE Name(path) \in ReservedNames -> "skip_reserved"
      [] c.kind = "unreadable" -> "skip_unreadable"
      [] FrontmatterFalsy(c) -> "skip_frontmatter"
      [] c.kind = "scalar" -> "raise"
      [] c.fm["domain"] \in {Absent, Null} -> "skip_domain"
      [] DomainOf(c.fm) = <<>> -> "skip_domain"
      [] OTHER -> "publish_post"

\* what process_markdown_file does with a file before it calls publish_post
process_markdown_file(path, c) ==
    CASE Name(path) \in ReservedNames -> "skip_reserved"
      [] c.kind = "unreadable" -> "skip_unreadable"
      [] FrontmatterFalsy(c) -> "skip_frontmatter"
      [] c.kind = "scalar" -> "raise"
      [] Truthy(Get(c.fm, "ignorePost", Bool(FALSE))) -> "skip_ignore"
      [] c.fm["domain"] \in {Absent, Null} -> "skip_domain"
      [] DomainOf(c.fm) = <<>> -> "skip_domain"
      [] OTHER -> "publish_post"

(***************************************************************************)
(* HTTP responses.  status is "200", "500" or "error" (a RequestException: *)
(* connection failure or timeout); shape says what response.json() is:     *)
(* "null", an object with "errors", an object without usable "data", or an *)
(* object whose data holds the payload (me, publication, publishPost).     *)
(***************************************************************************)
NoEdges == [t |-> "absent", list |-> <<>>]

Payload(t, id, success, post_null, edges) ==
    [t |-> t, id |-> id, success |-> success, post_null |-> post_null, edges |-> edges]

NullPayload == Payload("null", "None", FALSE, FALSE, NoEdges)

Resp(status, shape, payload) == [status |-> status, shape |-> shape, payload |-> payload]

NoResponse == Resp("none", "null", NullPayload)

FailedResponses ==
    {Resp("error", "null", NullPayload), Resp("500", "null", NullPayload),
     Resp("200", "null", NullPayload), Resp("200", "errors", NullPayload),
     Resp("200", "no_data", NullPayload), Resp("200", "data", NullPayload)}

\* "errors" in data, with data = None: TypeError
JsonRaises(r) == r.status = "200" /\ r.shape = "null"

\* the payload the code gets hold of, if any
HasPayload(r) == r.status = "200" /\ r.shape = "data" /\ r.payload.t = "obj"

PubIds == <<"p1", "p2", "p3", "p4">>

PubUrls ==
    {<<"https://", "myblog", ".hashnode.dev">>, <<"https://", "myblog">>, <<>>}

\* the edges at position i: a node with an id and a url, or "node": null
EdgesAt(i) ==
    {[id |-> PubIds[i], url |-> u, null |-> FALSE] : u \in PubUrls}
        \cup {[id |-> PubIds[i], url |-> <<>>, null |-> TRUE]}

EdgeLists ==
    UNION {{e \in [1..n -> UNION {EdgesAt(i) : i \in 1..n}] :
                \A i \in 1..n : e[i] \in EdgesAt(i)} : n \in 0..MaxPubs}

IdentityResponses ==
    FailedResponses
        \cup {Resp("200", "data", Payload("obj", "me", FALSE, FALSE, NoEdges)),
              Resp("200", "data",
                   Payload("obj", "me", FALSE, FALSE, [t |-> "null", list |-> <<>>]))}
        \cup {Resp("200", "data",
                   Payload("obj", "me", FALSE, FALSE, [t |-> "list", list |-> e])) :
                e \in EdgeLists}

DirectResponses ==
    FailedResponses
        \cup {Resp("200", "data", Payload("obj", id, FALSE, FALSE, NoEdges)) :
                id \in {"p1", "pd"}}

PublishResponses ==
    FailedResponses
        \cup {Resp("200", "data", Payload("obj", "post", ok, pn, NoEdges)) :
                ok \in BOOLEAN, pn \in BOOLEAN}

(***************************************************************************)
(* get_publication_id.                                                     *)
(***************************************************************************)
Suffix == ".hashnode.dev"

\* domain.replace("https://", "").replace("http://", "").split("/")[0].strip()
HostOf(d) == Strip(SplitHead(Remove(Remove(d, "https://"), "http://"), "/"))

\* pub_host.lower() == host.lower()
ExactMatch(host, pub_host) == Lower(pub_host) = Lower(host)

\* mutant: the suffix is stripped whatever the requested host ends with
SuffixMatch_AnyHost(host, pub_host) ==
    Lower(Remove(host, Suffix)) = Lower(Remove(pub_host, Suffix))

\* the comparison without the .hashnode.dev suffix
SuffixMatch(host, pub_host) ==
    /\ EndsWith(host, Suffix)
    /\ Lower(Remove(host, Suffix)) = Lower(Remove(pub_host, Suffix))

Found(id) == [kind |-> "found", id |-> id]
NotFound == [kind |-> "none", id |-> "None"]
Raised == [kind |-> "raise", id |-> "None"]

\* one publication of the list against the host
PubMatches(host, pub) ==
    /\ pub.url # <<>>
    /\ ExactMatch(host, HostOf(pub.url)) \/ SuffixMatch(host, HostOf(pub.url))

\* the for loop over the publications of the identity
RECURSIVE MatchPublication(_, _)
MatchPublication(host, edges) ==
    IF edges = <<>> THEN NotFound
    ELSE IF Head(edges).null THEN Raised
    ELSE IF PubMatches(host, Head(edges)) THEN Found(Head(edges).id)
    ELSE MatchPublication(host, Tail(edges))

\* get_user_info(): the response as the "me" object, or None
UserInfo(r) == IF HasPayload(r) THEN r.payload.edges ELSE [t |-> "none", list |-> <<>>]

\* the direct query: the id it yields, "None" when it yields nothing
DirectId(r) == IF HasPayload(r) THEN r.payload.id ELSE "None"

(***************************************************************************)
(* publish_post: what it returns for a response to the publish mutation.   *)
(***************************************************************************)
PublishResult(r) ==
    CASE r.status # "200" -> "False"
      [] JsonRaises(r) -> "raise"
      [] r.shape = "errors" -> "False"
      [] ~HasPayload(r) -> "None"
      [] ~r.payload.success -> "False"
      [] r.payload.post_null -> "raise"
      [] OTHER -> "True"

(***************************************************************************)
(* main: the target list.                                                  *)
(***************************************************************************)
NoFile == [exists |-> FALSE, lines |-> <<>>]
File(lines) == [exists |-> TRUE, lines |-> lines]

\* [line.strip() for line in f if line.strip()]
ListedFiles(lines) ==
    SelectSeq([i \in 1..Len(lines) |-> Strip(lines[i])], LAMBDA l : l # <<>>)

\* the orders in which glob may yield the names of a set
Orderings(S) ==
    {o \in [1..Cardinality(S) -> S] : \A i, j \in 1..Cardinality(S) : o[i] = o[j] => i = j}

\* file_list as main computes it: one list, or any order of the directory scan
FileLists(cf, dir) ==
    IF cf.exists THEN {ListedFiles(cf.lines)}
    ELSE {[i \in 1..Len(o) |-> <<o[i]>>] : o \in Orderings(dir \ ReservedNames)}

\* file_path.exists()
Exists(path, dir) == Name(path) \in dir

Falsy(success) == success # "True"

\* the lines main writes after the header of publish_results.txt
ReportLines(res) ==
    [i \in 1..Len(res) |->
        [status |-> IF Falsy(res[i].success) THEN "Failed" ELSE "Success",
         file |-> res[i].file]]

\* sys.exit(1) if any(not r["success"] for r in results)
ExitStatus(res) == IF \E i \in 1..Len(res) : Falsy(res[i].success) THEN "1" ELSE "0"

(***************************************************************************)
(* The inputs the model draws from.                                        *)
(***************************************************************************)
AllNames == {"README.md", "SETUP.md", "post.md", "draft.md"}

\* the working directory of a run that is given a list file
Checkout == {"README.md", "SETUP.md", "post.md"}

\* the lines a list file is made of
Lines == {<<SP>>, <<"post.md", SP>>, <<"README.md">>, <<"SETUP.md">>, <<"gone.md">>}

ListFiles == UNION {{File(l) : l \in [1..n -> Lines]} : n \in 0..MaxFiles}

GoodTitle == Str(<<DQ, "T", DQ>>)
GoodSlug == Str(<<"s">>)
FullHost == <<"myblog", Suffix>>

\* the frontmatter of the files of a batch
BatchFrontmatters ==
    {Mapping([ignorePost |-> Bool(TRUE), domain |-> Str(FullHost),
              title |-> GoodTitle, slug |-> GoodSlug])}
        \cup {Mapping([domain |-> d, title |-> GoodTitle, slug |-> GoodSlug]) :
                d \in {Absent, Null, Str(<<>>), Str(<<SP>>)}}
        \cup {Mapping([domain |-> Str(d), title |-> t, slug |-> sl]) :
                d \in {<<SP>> \o FullHost, <<"myblog">>},
                t \in {Absent, GoodTitle, Num(<<"7">>)},
                sl \in {Absent, GoodSlug}}
        \cup {Mapping([domain |-> Str(FullHost), title |-> GoodTitle, slug |-> GoodSlug,
                       subtitle |-> Str(<<"a">>), tags |-> Str(<<"a", ",", "b">>),
                       enableToc |-> Bool(TRUE)])}

FileTexts ==
    {Text(k, NoFrontmatter) : k \in {"unreadable", "plain", "bad_yaml", "null", "scalar",
                                     "mapping"}}
        \cup {Text("mapping", fm) : fm \in BatchFrontmatters}

\* the domains get_publication_id is called with
ResolveDomains ==
    {<<"myblog">>, FullHost, <<"https://", "myblog", Suffix, "/", "blog">>,
     <<"MyBlog", ".Hashnode.Dev">>, <<"http://", "other.dev">>}

OptionalKeys ==
    {"tags", "subtitle", "cover", "cover_image", "canonical", "seoTitle",
     "seoDescription", "seriesSlug", "saveAsDraft", "hideFromHashnodeCommunity",
     "disableComments", "enableToc"}

FlagKeys == {"saveAsDraft", "hideFromHashnodeCommunity", "disableComments", "enableToc"}

TextValues ==
    {Str(<<>>), Str(<<"a">>), Str(<<DQ, DQ>>), Str(<<SP>>), Null, Num(<<"0">>)}

FlagValues == {Bool(TRUE), Bool(FALSE), Null, Str(<<"yes">>)}

TagsValues ==
    {Str(<<>>), Str(<<"a">>), Str(<<SP, ",", SP>>),
     Str(<<"a", ",", SP, "b", ",", SP, "b", SP, ",", SP, SP, ",", "c", ",",
           "d", ",", "e", ",", "f">>),
     List(<<>>), List(<<Str(<<"a">>)>>), List(<<Str(<<SP>>), Num(<<"0">>)>>),
     Num(<<"5">>), Null}

OptionalValues(k) ==
    IF k = "tags" THEN TagsValues ELSE IF k \in FlagKeys THEN FlagValues ELSE TextValues

ValidFrontmatter == Mapping([domain |-> Str(FullHost), title |-> GoodTitle, slug |-> GoodSlug])

\* the valid frontmatters with at most n optional keys set
RECURSIVE MoreKeys(_, _)
MoreKeys(fms, n) ==
    IF n = 0 THEN fms
    ELSE MoreKeys(fms \cup UNION {{[fm EXCEPT ![k] = v] : v \in OptionalValues(k), fm \in fms} :
                                      k \in OptionalKeys},
                  n - 1)

InputFrontmatters(n) == MoreKeys({ValidFrontmatter}, n)

(***************************************************************************)
(* The actions.                                                            *)
(***************************************************************************)
fileVars == <<changed_files, directory, file_list>>
callVars == <<text, frontmatter, content, domain, publications, publication_id, input_data>>

\* an exception nothing catches: traceback, exit status 1
Crash ==
    /\ pc' = "crashed"
    /\ exit_status' = "1"
    /\ log' = "raise"
    /\ UNCHANGED <<idx, results, report, publish_failed>>

\* process_markdown_file returns to main, which appends to results
Return(success, msg, from_publish) ==
    /\ results' = Append(results, [file |-> file_list[idx], success |-> success])
    /\ idx' = idx + 1
    /\ pc' = "loop"
    /\ log' = msg
    /\ publish_failed' = (publish_failed \/ (from_publish /\ Falsy(success)))
    /\ UNCHANGED <<report, exit_status>>

\* mutant: the run without files goes through the report step
NoFilesToProcess_WritesReport ==
    /\ pc' = "done"
    /\ exit_status' = "0"
    /\ report' = File(<<>>)

\* main: "No markdown files to process", and main returns
NoFilesToProcess ==
    /\ pc' = "done"
    /\ exit_status' = "0"
    /\ report' = report

\* main, up to the loop
MainStart ==
    /\ pc = "main"
    /\ \E fl \in FileLists(changed_files, directory) :
        /\ file_list' = fl
        /\ IF fl = <<>>
           THEN NoFilesToProcess
           ELSE pc' = "loop" /\ UNCHANGED <<exit_status, report>>
    /\ UNCHANGED <<changed_files, directory, idx, results, requests,
                   response, log, publish_failed>>
    /\ UNCHANGED callVars

\* mutant: an entry whose file does not exist is recorded as a failure
FileNotFound_Recorded ==
    /\ pc = "loop"
    /\ idx <= Len(file_list)
    /\ ~Exists(file_list[idx], directory)
    /\ results' = Append(results, [file |-> file_list[idx], success |-> "False"])
    /\ idx' = idx + 1
    /\ log' = "not_found"
    /\ requests' = <<>>
    /\ response' = NoResponse
    /\ UNCHANGED <<pc, report, exit_status, publish_failed>>
    /\ UNCHANGED fileVars
    /\ UNCHANGED callVars

\* main: an entry whose file does not exist
FileNotFound ==
    /\ pc = "loop"
    /\ idx <= Len(file_list)
    /\ ~Exists(file_list[idx], directory)
    /\ idx' = idx + 1
    /\ log' = "not_found"
    /\ requests' = <<>>
    /\ response' = NoResponse
    /\ UNCHANGED <<pc, results, report, exit_status, publish_failed>>
    /\ UNCHANGED fileVars
    /\ UNCHANGED callVars

\* main calls process_markdown_file, which runs up to its call of publish_post
ProcessFile ==
    /\ pc = "loop"
    /\ idx <= Len(file_list)
    /\ Exists(file_list[idx], directory)
    /\ requests' = <<>>
    /\ response' = NoResponse
    /\ \E c \in FileTexts :
        LET step == process_markdown_file(file_list[idx], c)
        IN  /\ text' = IF step = "skip_reserved" THEN "unread" ELSE c.kind
            /\ frontmatter' =
                  IF step # "skip_reserved" /\ c.kind = "mapping"
                  THEN c.fm ELSE NoFrontmatter
            /\ IF step = "publish_post"
               THEN /\ content' = c.body
                    /\ domain' = DomainOf(c.fm)
                    /\ pc' = "get_user_info"
                    /\ log' = "publish_post"
                    /\ UNCHANGED <<idx, results, report, exit_status, publish_failed>>
               ELSE /\ UNCHANGED <<content, domain>>
                    /\ IF step = "raise" THEN Crash ELSE Return("False", step, FALSE)
    /\ UNCHANGED <<publications, publication_id, input_data>>
    /\ UNCHANGED fileVars

\* get_publication_id: the identity lookup and the comparison with its list
LookupIdentity ==
    /\ pc = "get_user_info"
    /\ requests' = Append(requests, "me")
    /\ \E r \in IdentityResponses :
        LET info == UserInfo(r)
            m == MatchPublication(HostOf(domain), info.list)
        IN  /\ publications' = info.list
            /\ IF JsonRaises(r) \/ info.t = "null" \/ m.kind = "raise"
               THEN Crash /\ UNCHANGED publication_id
               ELSE /\ IF m.kind = "found"
                       THEN publication_id' = m.id /\ pc' = "resolved"
                       ELSE publication_id' = "None" /\ pc' = "direct_query"
                    /\ UNCHANGED <<idx, results, report, exit_status, log,
                                   publish_failed>>
    /\ UNCHANGED <<text, frontmatter, content, domain, input_data, response>>
    /\ UNCHANGED fileVars

\* get_publication_id: the direct query by host
LookupDirect ==
    /\ pc = "direct_query"
    /\ requests' = Append(requests, "publication")
    /\ \E r \in DirectResponses :
        /\ response' = r
        /\ IF JsonRaises(r)
           THEN Crash /\ UNCHANGED publication_id
           ELSE /\ publication_id' = DirectId(r)
                /\ pc' = "resolved"
                /\ UNCHANGED <<idx, results, report, exit_status, log, publish_failed>>
    /\ UNCHANGED <<text, frontmatter, content, domain, publications, input_data>>
    /\ UNCHANGED fileVars

\* publish_post, from the return of get_publication_id to the request
BuildRequest ==
    /\ pc = "resolved"
    /\ publications' = <<>>
    /\ response' = NoResponse
    /\ IF publication_id = "None"
       THEN Return("False", "fail_resolution", TRUE) /\ UNCHANGED input_data
       ELSE IF TitleRaises(frontmatter)
       THEN Crash /\ UNCHANGED input_data
       ELSE IF Title(frontmatter) = <<>>
                 \/ ~Truthy(Get(frontmatter, "slug", Str(<<>>)))
       THEN Return("False", "fail_required", TRUE) /\ UNCHANGED input_data
       ELSE /\ input_data' = InputData(frontmatter, content, publication_id)
            /\ pc' = "publish"
            /\ UNCHANGED <<idx, results, report, exit_status, log, publish_failed>>
    /\ UNCHANGED <<text, frontmatter, content, domain, publication_id, requests>>
    /\ UNCHANGED fileVars

\* mutant: a request that fails in transport is sent again
SendPublish_Retry ==
    /\ pc = "publish"
    /\ requests' = Append(requests, "publishPost")
    /\ \E r \in PublishResponses :
        /\ response' = r
        /\ IF r.status = "error"
           THEN UNCHANGED <<pc, idx, results, report, exit_status, log, publish_failed>>
           ELSE IF PublishResult(r) = "raise"
           THEN Crash
           ELSE Return(PublishResult(r),
                       IF PublishResult(r) = "True" THEN "published" ELSE "fail_publish",
                       TRUE)
    /\ UNCHANGED callVars
    /\ UNCHANGED fileVars

\* publish_post: the publish mutation and the reading of its response
SendPublish ==
    /\ pc = "publish"
    /\ requests' = Append(requests, "publishPost")
    /\ \E r \in PublishResponses :
        /\ response' = r
        /\ IF PublishResult(r) = "raise"
           THEN Crash
           ELSE Return(PublishResult(r),
                       IF PublishResult(r) = "True" THEN "published" ELSE "fail_publish",
                       TRUE)
    /\ UNCHANGED callVars
    /\ UNCHANGED fileVars

\* main, after the loop: the report and the exit status
WriteResults ==
    /\ pc = "loop"
    /\ idx > Len(file_list)
    /\ report' = File(ReportLines(results))
    /\ exit_status' = ExitStatus(results)
    /\ pc' = "done"
    /\ UNCHANGED <<idx, results, requests, response, log, publish_failed>>
    /\ UNCHANGED fileVars
    /\ UNCHANGED callVars

(***************************************************************************)
(* The batch run.                                                          *)
(***************************************************************************)
Idle ==
    /\ idx = 1
    /\ results = <<>>
    /\ report = NoFile
    /\ exit_status = "running"
    /\ publish_failed = FALSE

Init ==
    /\ pc = "main"
    /\ \/ changed_files \in ListFiles /\ directory = Checkout
       \/ changed_files = NoFile /\ directory \in SUBSET AllNames
    /\ file_list = <<>>
    /\ Idle
    /\ text = "unread"
    /\ frontmatter = NoFrontmatter
    /\ content = <<>>
    /\ domain = <<>>
    /\ publications = <<>>
    /\ publication_id = "None"
    /\ input_data = NoInput
    /\ requests = <<>>
    /\ response = NoResponse
    /\ log = "none"

Next ==
    \/ MainStart
    \/ FileNotFound
    \/ ProcessFile
    \/ LookupIdentity
    \/ LookupDirect
    \/ BuildRequest
    \/ SendPublish
    \/ WriteResults

Spec == Init /\ [][Next]_vars

(***************************************************************************)
(* One call of get_publication_id, made for the only file of a batch.      *)
(***************************************************************************)
OneFile ==
    /\ changed_files = File(<<<<"post.md">>>>)
    /\ directory = Checkout
    /\ file_list = <<<<"post.md">>>>
    /\ Idle
    /\ text = "mapping"
    /\ content = <<"body">>
    /\ input_data = NoInput
    /\ response = NoResponse
    /\ log = "publish_post"

InitResolve ==
    /\ pc = "get_user_info"
    /\ OneFile
    /\ \E d \in ResolveDomains :
        /\ domain = d
        /\ frontmatter = Mapping([domain |-> Str(d), title |-> GoodTitle,
                                  slug |-> GoodSlug])
    /\ publications = <<>>
    /\ publication_id = "None"
    /\ requests = <<>>

NextResolve == LookupIdentity \/ LookupDirect

SpecResolve == InitResolve /\ [][NextResolve]_vars

(***************************************************************************)
(* One call of publish_post, from the return of get_publication_id on.     *)
(***************************************************************************)
InitInput ==
    /\ pc = "resolved"
    /\ OneFile
    /\ frontmatter \in InputFrontmatters(MaxOptKeys)
    /\ domain = FullHost
    /\ publications = <<[id |-> "p1", url |-> <<"https://">> \o FullHost, null |-> FALSE]>>
    /\ publication_id = "p1"
    /\ requests = <<"me">>

NextInput == BuildRequest \/ SendPublish

SpecInput == InitInput /\ [][NextInput]_vars

(***************************************************************************)
(* Properties.                                                             *)
(***************************************************************************)
Last(seq) == seq[Len(seq)]

Blank(line) == Strip(line) = <<>>

\* the run found no file to process, judged from its inputs
ZeroEligible ==
    IF changed_files.exists
    THEN \A i \in 1..Len(changed_files.lines) : Blank(changed_files.lines[i])
    ELSE directory \subseteq ReservedNames

\* the current file falls under one of the skip rules that follow the file name check
SkipCase ==
    \/ text \in {"unreadable", "plain", "bad_yaml", "null"}
    \/ /\ text = "mapping"
       /\ \/ frontmatter = NoFrontmatter
          \/ Truthy(Get(frontmatter, "ignorePost", Bool(FALSE)))
          \/ frontmatter["domain"] \in {Absent, Null}
          \/ DomainOf(frontmatter) = <<>>

Sent(op) == \E i \in 1..Len(requests) : requests[i] = op

\* the file whose processing came last has its outcome in results
LastRecorded ==
    /\ pc \in {"loop", "done"}
    /\ idx > 1
    /\ Len(results) >= 1
    /\ Last(results).file = file_list[idx - 1]
    /\ log \notin {"none", "not_found", "publish_post", "raise"}

\* C1: when main has ended, the exit status is 1 if and only if some file reached the
\* publish step and that step returned failure; a skipped file never makes it 1.
C1_ExitStatus == pc = "done" => (exit_status = "1" <=> publish_failed)

\* C2 as stated: a run that finds zero eligible files writes a report file without any
\* per-file line and ends with exit status 0.
C2_EmptyReport ==
    (pc # "main" /\ ZeroEligible)
        => (pc = "done" /\ report.exists /\ report.lines = <<>> /\ exit_status = "0")

\* C2 as amended: a run that finds zero eligible files returns before the report step:
\* it writes no report file, sends no request and ends with exit status 0.
C2_NoReport ==
    (pc # "main" /\ ZeroEligible)
        => (pc = "done" /\ report = NoFile /\ exit_status = "0" /\ requests = <<>>
            /\ results = <<>>)

C2_Witness ==
    /\ pc = "done"
    /\ changed_files.exists
    /\ Len(changed_files.lines) = MaxFiles
    /\ ZeroEligible

ReportedFiles == [i \in 1..Len(report.lines) |-> report.lines[i].file]

\* C3 as stated: after main has processed a non-empty target list, the report holds
\* exactly one line for every entry of the list, in list order, missing files included.
C3_OneLinePerEntry == (pc = "done" /\ file_list # <<>>) => ReportedFiles = file_list

\* C3 as amended: whenever main writes the report, it holds exactly one line for every
\* entry of the target list whose file exists, in list order, and no line for an entry
\* whose file does not exist.
C3_OneLinePerExistingEntry ==
    /\ (pc = "done" /\ file_list # <<>>) => report.exists
    /\ report.exists =>
        /\ ReportedFiles = SelectSeq(file_list, LAMBDA f : Exists(f, directory))
        /\ \A i \in 1..Len(report.lines) :
            report.lines[i].status = "Success" <=> results[i].success = "True"

C3_Witness ==
    /\ pc = "done"
    /\ report.exists
    /\ Len(report.lines) >= 1
    /\ Len(report.lines) < Len(file_list)

\* C4: no exception escapes the per-file processing step, whatever the file holds and
\* whatever the API answers.
C4_NoException == pc # "crashed"

OnlyFullHost == <<[id |-> "p1", url |-> <<"https://">> \o FullHost, null |-> FALSE]>>

KeysOf(f) ==
    CASE f = "coverImageURL" -> {"cover", "cover_image"}
      [] f = "originalArticleURL" -> {"canonical"}
      [] f = "enableTableOfContents" -> {"enableToc"}
      [] OTHER -> {f}

OptionalFields ==
    {"subtitle", "coverImageURL", "originalArticleURL", "seoTitle", "seoDescription",
     "seriesSlug", "tags", "hideFromHashnodeCommunity", "disableComments",
     "enableTableOfContents"}

\* a null, an empty string, an empty list or false
EmptyValue(v) ==
    \/ v.t = "null"
    \/ v.t = "str" /\ v.s = <<>>
    \/ v.t = "list" /\ v.items = <<>>
    \/ v.t = "bool" /\ v.s # <<"True">>

\* C6: in the input object of the publish mutation every optional field is present if
\* and only if its frontmatter key is present and truthy, a field that is present never
\* carries an empty value, and publishStatus is always present.
C6_OptionalFields ==
    pc = "publish" =>
        /\ input_data["publishStatus"] # Absent
        /\ \A f \in OptionalFields :
            /\ input_data[f] # Absent <=> \E k \in KeysOf(f) : HasTruthy(frontmatter, k)
            /\ input_data[f] # Absent => ~EmptyValue(input_data[f])

\* publication i of the list has exactly the requested host, case-insensitively
Exact(i) ==
    /\ ~publications[i].null
    /\ Lower(HostOf(publications[i].url)) = Lower(HostOf(domain))

\* C7: when the list holds a publication whose host equals the requested host,
\* get_publication_id returns the id of the first such publication of the list; the
\* comparison without the suffix decides only when no publication matches exactly.
C7_ExactMatchFirst ==
    (pc = "resolved" /\ \E i \in 1..Len(publications) : Exact(i))
        => \E i \in 1..Len(publications) :
            /\ Exact(i)
            /\ \A j \in 1..(i - 1) : ~Exact(j)
            /\ publication_id = publications[i].id
            /\ requests = <<"me">>

\* HTTP 200, no error list, publishPost.success true
GoodResponse(r) ==
    /\ r.status = "200"
    /\ r.shape = "data"
    /\ r.payload.t = "obj"
    /\ r.payload.success

\* C8: a file is recorded as a success if and only if its publish mutation was sent and
\* answered with HTTP 200, no error list and publishPost.success true; every other
\* answer leaves the file recorded as a failure.
C8_SuccessIffPublished ==
    /\ LastRecorded =>
        (Last(results).success = "True" <=> (Sent("publishPost") /\ GoodResponse(response)))
    /\ Sent("publishPost") => LastRecorded

\* C9: a file that falls under a skip rule causes no request at all, and the publish
\* mutation is sent only after the publication id was resolved and the title and the
\* slug were both found non-empty.
C9_SkipBeforeNetwork ==
    /\ SkipCase => (requests = <<>> /\ pc \in {"loop", "done"})
    /\ (pc = "publish" \/ Sent("publishPost")) =>
        /\ publication_id # "None"
        /\ Title(frontmatter) # <<>>
        /\ Truthy(frontmatter["slug"])
        /\ Sent("me")

C9_Witness ==
    /\ pc = "loop"
    /\ text = "mapping"
    /\ Truthy(frontmatter["ignorePost"])
    /\ LastRecorded
    /\ log = "skip_ignore"
    /\ idx = 3
    /\ Len(results) = 2
    /\ results[1].success = "True"

\* C10: while one file is processed each operation is sent at most once, in the order
\* identity lookup, direct by-host lookup, publish mutation; the direct lookup is sent
\* only when the list comparison found no match; so a file causes at most three requests.
C10_NoRetries ==
    /\ requests \in {<<>>, <<"me">>, <<"me", "publication">>, <<"me", "publishPost">>,
                     <<"me", "publication", "publishPost">>}
    /\ (pc = "direct_query" \/ (requests # <<>> /\ Last(requests) = "publication")) =>
        \A i \in 1..Len(publications) :
            \/ publications[i].url = <<>>
            \/ /\ ~ExactMatch(HostOf(domain), HostOf(publications[i].url))
               /\ ~SuffixMatch(HostOf(domain), HostOf(publications[i].url))

C10_Witness ==
    /\ pc = "loop"
    /\ requests = <<"me", "publication", "publishPost">>
    /\ response.status = "error"
    /\ Last(results).success = "False"

====
